---------------------------- MODULE Spec2Model ----------------------------
(***************************************************************************)
(* A model of the BMP581 driver (bmp581.py).                               *)
(*                                                                         *)
(* The chip is a register file reached through bus transactions.  The      *)
(* driver object holds one attribute of its own, sea_level_pressure; all   *)
(* its other properties are live reads and writes of chip registers made   *)
(* through the RWBits / ROBits / ROUnaryStruct descriptors declared in the *)
(* class body.  A descriptor read is one bus read; a descriptor write is a *)
(* bus read of the register followed by a bus write of the modified byte.  *)
(*                                                                         *)
(* Every call of a method or property is one action.  The action carries   *)
(* the whole call: validation, every bus transaction, the assignment of    *)
(* sea_level_pressure.  A transport error may be raised by the bus at any  *)
(* transaction of a call (parameter fail: the index of the transaction     *)
(* that raises, 0 for none); the exception then propagates and the rest of *)
(* the call is not executed.                                               *)
(*                                                                         *)
(* Floating point values are kept exact: a quotient is a record            *)
(* [num, den]; the barometric formula, which has no exact value, is kept   *)
(* as a term over its arguments.                                           *)
(***************************************************************************)
EXTENDS Integers, Sequences, FiniteSets, TLC

VARIABLES
    regs,                 \* the chip's registers: address -> byte
    inst,                 \* "none": no driver object; "ready": constructed
    sea_level_pressure,   \* the driver attribute (Unset before construction)
    last,                 \* the last call: [op, arg, err, result, assigned]
    log,                  \* the bus transactions issued by the last call
    tc                    \* scratch state of the _twos_comp harness

vars == <<regs, inst, sea_level_pressure, last, log, tc>>

---------------------------------------------------------------------------
(* Bounds of the model *)

\* setter arguments are drawn from -ArgSpan .. (field maximum + ArgSpan)
ArgSpan == 1
\* raw 24-bit samples are drawn within RawSpan of 0, 2^23 and 2^24 (and
\* from a fixed grid over the whole range)
RawSpan == 12

---------------------------------------------------------------------------
(* Constants of the module under test *)

REG_WHOAMI == 1
OSR_CONF == 54
ODR_CONFIG == 55
REG_TEMPERATURE == 29
REG_PRESSURE == 32
CHIP_ID == 80

STANDBY == 0
NORMAL == 1
FORCED == 2
NON_STOP == 3
\* a validation tuple with one entry too many
WrongPowerModeValues == {STANDBY, NORMAL, FORCED, NON_STOP, 4}
power_mode_values == {STANDBY, NORMAL, FORCED, NON_STOP}

OSR1 == 0
OSR2 == 1
OSR4 == 2
OSR8 == 3
OSR16 == 4
OSR32 == 5
OSR64 == 6
OSR128 == 7
pressure_oversample_rate_values == {OSR1, OSR2, OSR4, OSR8, OSR16, OSR32, OSR64, OSR128}
temperature_oversample_rate_values == {OSR1, OSR2, OSR4, OSR8, OSR16, OSR32, OSR64, OSR128}
\* range(0, 33, 1): an off-by-one upper limit
WrongOutputDataRateValues == 0 .. 32
output_data_rate_values == 0 .. 31

\* the name tables of the getters (1-indexed here, 0-indexed in the source)
power_mode_names == <<"STANDBY", "NORMAL", "FORCED", "NON_STOP">>
oversample_rate_names ==
    <<"OSR1", "OSR2", "OSR4", "OSR8", "OSR16", "OSR32", "OSR64", "OSR128">>

\* the field descriptors: RWBits(num_bits, register_address, lowest_bit)
RWBits(n, r, l) == [num_bits |-> n, register |-> r, lowest_bit |-> l]
d_power_mode == RWBits(2, ODR_CONFIG, 0)
d_temperature_oversample_rate == RWBits(3, OSR_CONF, 0)
\* a pressure field declared one bit too low, over the temperature field
OverlappingPressureOversampleRate == RWBits(3, OSR_CONF, 2)
d_pressure_oversample_rate == RWBits(3, OSR_CONF, 3)
d_output_data_rate == RWBits(5, ODR_CONFIG, 2)
d_pressure_enabled == RWBits(1, OSR_CONF, 6)

FieldOf(d) ==
    CASE d = d_power_mode -> "power_mode"
      [] d = d_temperature_oversample_rate -> "temperature_oversample_rate"
      [] d = d_pressure_oversample_rate -> "pressure_oversample_rate"
      [] d = d_output_data_rate -> "output_data_rate"
      [] d = d_pressure_enabled -> "pressure_enabled"
      [] OTHER -> "unknown"

---------------------------------------------------------------------------
(* Bit arithmetic on naturals *)

RECURSIVE BitAnd(_, _)
BitAnd(a, b) ==
    IF a = 0 \/ b = 0 THEN 0
    ELSE (IF a % 2 = 1 /\ b % 2 = 1 THEN 1 ELSE 0) + 2 * BitAnd(a \div 2, b \div 2)

RECURSIVE BitOr(_, _)
BitOr(a, b) ==
    IF a = 0 THEN b
    ELSE IF b = 0 THEN a
    ELSE (IF a % 2 = 1 \/ b % 2 = 1 THEN 1 ELSE 0) + 2 * BitOr(a \div 2, b \div 2)

---------------------------------------------------------------------------
(* The bus: a call in progress is a record m = [regs, log, err, assigned]. *)
(* Once err is set the exception is propagating and nothing more runs.     *)

Begin == [regs |-> regs, log |-> <<>>, err |-> "none", assigned |-> <<>>]

\* read n bytes starting at register addr
BusRead(m, addr, n, fail) ==
    IF m.err # "none" THEN m
    ELSE IF Len(m.log) + 1 = fail
         THEN [m EXCEPT !.log = Append(@, [kind |-> "read", reg |-> addr, ok |-> FALSE]),
                        !.err = "OSError"]
         ELSE [m EXCEPT !.log = Append(@, [kind |-> "read", reg |-> addr, ok |-> TRUE])]

\* write one byte to register addr
BusWrite(m, addr, byte, fail) ==
    IF m.err # "none" THEN m
    ELSE IF Len(m.log) + 1 = fail
         THEN [m EXCEPT !.log = Append(@, [kind |-> "write", reg |-> addr, ok |-> FALSE]),
                        !.err = "OSError"]
         ELSE [m EXCEPT !.log = Append(@, [kind |-> "write", reg |-> addr, ok |-> TRUE]),
                        !.regs = [@ EXCEPT ![addr] = byte]]

\* RWBits.bit_mask
BitMask(d) == (2 ^ d.num_bits - 1) * 2 ^ d.lowest_bit

\* the value RWBits.__get__ extracts from the register byte
FieldValue(byte, d) == BitAnd(byte, BitMask(d)) \div 2 ^ d.lowest_bit

\* the byte RWBits.__set__ writes back: the old byte with the field's bits
\* cleared, or-ed with the shifted value, cut to the one-byte buffer
FieldStore(byte, d, value) ==
    BitOr(BitAnd(byte, 255 - BitMask(d)), (value * 2 ^ d.lowest_bit) % 256)

\* RWBits.__set__: read the register, modify, write it back
RWBitsSet(m, d, value, fail) ==
    LET m1 == BusRead(m, d.register, 1, fail)
        m2 == BusWrite(m1, d.register, FieldStore(m1.regs[d.register], d, value), fail)
    IN  IF m2.err # "none" THEN m2
        ELSE [m2 EXCEPT !.assigned = Append(@, <<FieldOf(d), value>>)]

---------------------------------------------------------------------------
(* Values of the driver attribute and of the float-valued properties *)

Unset == [fn |-> "unset"]
\* the literal 101.325, as a quotient
SeaLevelDefault == [fn |-> "quot", num |-> 101325, den |-> 1000]

---------------------------------------------------------------------------
(* The end of a call: the registers and the log are what the bus made of   *)
(* them, the call's outcome is recorded, and sea_level_pressure is         *)
(* assigned only when the call reached its assignment.                     *)

Finish(op, arg, m, result, slp) ==
    /\ regs' = m.regs
    /\ log' = m.log
    /\ last' = [op |-> op, arg |-> arg, err |-> m.err,
                result |-> IF m.err = "none" THEN result ELSE "raised",
                assigned |-> m.assigned]
    /\ sea_level_pressure' = IF m.err = "none" THEN slp ELSE sea_level_pressure
    /\ UNCHANGED tc

Raise(m, e) == IF m.err = "none" THEN [m EXCEPT !.err = e] ELSE m

\* the transactions of a call at which the bus may raise (0: nowhere)
FailPoints(n) == 0 .. n

---------------------------------------------------------------------------
(* BMP581.__init__ *)

\* the identity check made after the initialisation writes
ConstructLateCheck(fail) ==
    /\ inst = "none"
    /\ LET m1 == BusRead(Begin, REG_WHOAMI, 1, fail)
           m2 == RWBitsSet(m1, d_power_mode, NORMAL, fail)
           m3 == RWBitsSet(m2, d_pressure_enabled, 1, fail)
           m4 == IF m3.regs[REG_WHOAMI] # CHIP_ID THEN Raise(m3, "RuntimeError") ELSE m3
       IN  /\ Finish("__init__", "none", m4, "none", SeaLevelDefault)
           /\ inst' = IF m4.err = "none" THEN "ready" ELSE "none"

\* the pressure path left as the chip had it
ConstructNoEnable(fail) ==
    /\ inst = "none"
    /\ LET m1 == BusRead(Begin, REG_WHOAMI, 1, fail)
           m2 == IF m1.regs[REG_WHOAMI] # CHIP_ID THEN Raise(m1, "RuntimeError") ELSE m1
           m3 == RWBitsSet(m2, d_power_mode, NORMAL, fail)
       IN  /\ Finish("__init__", "none", m3, "none", SeaLevelDefault)
           /\ inst' = IF m3.err = "none" THEN "ready" ELSE "none"

\* sea_level_pressure assigned before the chip is initialised
ConstructSeaLevelFirst(fail) ==
    /\ inst = "none"
    /\ LET m1 == BusRead(Begin, REG_WHOAMI, 1, fail)
           m2 == IF m1.regs[REG_WHOAMI] # CHIP_ID THEN Raise(m1, "RuntimeError") ELSE m1
           m3 == RWBitsSet(m2, d_power_mode, NORMAL, fail)
           m4 == RWBitsSet(m3, d_pressure_enabled, 1, fail)
       IN  /\ regs' = m4.regs
           /\ log' = m4.log
           /\ last' = [op |-> "__init__", arg |-> "none", err |-> m4.err,
                       result |-> IF m4.err = "none" THEN "none" ELSE "raised",
                       assigned |-> m4.assigned]
           /\ sea_level_pressure' = IF m2.err = "none" THEN SeaLevelDefault
                                                       ELSE sea_level_pressure
           /\ UNCHANGED tc
           /\ inst' = IF m4.err = "none" THEN "ready" ELSE "none"

Construct(fail) ==
    /\ inst = "none"
    /\ LET m1 == BusRead(Begin, REG_WHOAMI, 1, fail)
           m2 == IF m1.regs[REG_WHOAMI] # CHIP_ID THEN Raise(m1, "RuntimeError") ELSE m1
           m3 == RWBitsSet(m2, d_power_mode, NORMAL, fail)
           m4 == RWBitsSet(m3, d_pressure_enabled, 1, fail)
       IN  /\ Finish("__init__", "none", m4, "none", SeaLevelDefault)
           /\ inst' = IF m4.err = "none" THEN "ready" ELSE "none"

---------------------------------------------------------------------------
(* The configuration properties *)

\* a getter that maps the field's value through a name table
NamedGet(op, d, names, fail) ==
    /\ inst = "ready"
    /\ LET m1 == BusRead(Begin, d.register, 1, fail)
           idx == FieldValue(m1.regs[d.register], d)
           m2 == IF idx + 1 \notin DOMAIN names THEN Raise(m1, "IndexError") ELSE m1
       IN  /\ Finish(op, "none", m2,
                     IF idx + 1 \in DOMAIN names THEN names[idx + 1] ELSE "raised",
                     sea_level_pressure)
           /\ UNCHANGED inst

\* a setter: validation, then the descriptor write
CheckedSet(op, d, valid, value, fail) ==
    /\ inst = "ready"
    /\ LET m1 == IF value \notin valid THEN Raise(Begin, "ValueError") ELSE Begin
           m2 == RWBitsSet(m1, d, value, fail)
       IN  /\ Finish(op, value, m2, "none", sea_level_pressure)
           /\ UNCHANGED inst

PowerModeGet(fail) == NamedGet("power_mode.get", d_power_mode, power_mode_names, fail)

PowerModeSet(value, fail) ==
    CheckedSet("power_mode.set", d_power_mode, power_mode_values, value, fail)

PressureOversampleRateGet(fail) ==
    NamedGet("pressure_oversample_rate.get", d_pressure_oversample_rate,
             oversample_rate_names, fail)

PressureOversampleRateSet(value, fail) ==
    CheckedSet("pressure_oversample_rate.set", d_pressure_oversample_rate,
               pressure_oversample_rate_values, value, fail)

TemperatureOversampleRateGet(fail) ==
    NamedGet("temperature_oversample_rate.get", d_temperature_oversample_rate,
             oversample_rate_names, fail)

\* the setter assigning the pressure field
TemperatureOversampleRateSetWrongField(value, fail) ==
    CheckedSet("temperature_oversample_rate.set", d_pressure_oversample_rate,
               temperature_oversample_rate_values, value, fail)

TemperatureOversampleRateSet(value, fail) ==
    CheckedSet("temperature_oversample_rate.set", d_temperature_oversample_rate,
               temperature_oversample_rate_values, value, fail)

OutputDataRateGet(fail) ==
    /\ inst = "ready"
    /\ LET m1 == BusRead(Begin, d_output_data_rate.register, 1, fail)
       IN  /\ Finish("output_data_rate.get", "none", m1,
                     FieldValue(m1.regs[d_output_data_rate.register], d_output_data_rate),
                     sea_level_pressure)
           /\ UNCHANGED inst

OutputDataRateSet(value, fail) ==
    CheckedSet("output_data_rate.set", d_output_data_rate, output_data_rate_values,
               value, fail)

---------------------------------------------------------------------------
(* The measurement properties *)

\* the sign tested one bit too high
TwosCompWrongBit(val, bits) ==
    IF (val \div 2 ^ bits) % 2 # 0 THEN val - 2 ^ bits ELSE val

\* BMP581._twos_comp
TwosComp(val, bits) ==
    IF (val \div 2 ^ (bits - 1)) % 2 # 0 THEN val - 2 ^ bits ELSE val

\* the integer ROBits.__get__ assembles from the width bytes read at addr:
\* for i in range(width, 0, -1): reg = (reg << 8) | buffer[i]
RECURSIVE Assemble(_, _, _)
Assemble(rs, addr, width) ==
    IF width = 0 THEN 0
    ELSE rs[addr + width - 1] * 256 ^ (width - 1) + Assemble(rs, addr, width - 1)

\* the value of ROBits(24, addr, 0, 3) once the bytes are read
ROBitsValue(rs, addr) == BitAnd(Assemble(rs, addr, 3), 2 ^ 24 - 1) \div 2 ^ 0

\* exact quotients for the float divisions
Quot(n, d) == [fn |-> "quot", num |-> n, den |-> d]
Div(q, d) == [q EXCEPT !.den = @ * d]

\* raw_temp -> degrees Celsius
TemperatureOf(raw) == Div(Quot(TwosComp(raw, 24), 1), 2 ^ 16)
\* the pressure left in Pa
PressureInPa(raw) == Div(Quot(TwosComp(raw, 24), 1), 2 ^ 6)
\* raw_pressure -> kPa
PressureOf(raw) == Div(Div(Quot(TwosComp(raw, 24), 1), 2 ^ 6), 1000)

\* the raw pressure remembered from the last calibration instead of read
StaleRawRead(m, addr) ==
    IF addr = REG_PRESSURE /\ sea_level_pressure.fn = "sea_level"
    THEN sea_level_pressure.pressure.num % 2 ^ 24
    ELSE ROBitsValue(m.regs, addr)
\* the raw value a measurement getter works on
RawRead(m, addr) == ROBitsValue(m.regs, addr)

\* the barometric formula and its inverse, as terms over their arguments
AltitudeOf(p, p0) == [fn |-> "altitude", pressure |-> p, sea_level_pressure |-> p0]
SeaLevelOf(p, value) == [fn |-> "sea_level", pressure |-> p, altitude |-> value]
\* a sea-level pressure that is 0.0: the quotient of a zero pressure
IsZero(p0) == p0.fn = "sea_level" /\ p0.pressure.num = 0

Temperature(fail) ==
    /\ inst = "ready"
    /\ LET m1 == BusRead(Begin, REG_TEMPERATURE, 3, fail)
       IN  /\ Finish("temperature.get", "none", m1,
                     TemperatureOf(RawRead(m1, REG_TEMPERATURE)), sea_level_pressure)
           /\ UNCHANGED inst

Pressure(fail) ==
    /\ inst = "ready"
    /\ LET m1 == BusRead(Begin, REG_PRESSURE, 3, fail)
       IN  /\ Finish("pressure.get", "none", m1,
                     PressureOf(RawRead(m1, REG_PRESSURE)), sea_level_pressure)
           /\ UNCHANGED inst

AltitudeGet(fail) ==
    /\ inst = "ready"
    /\ LET m1 == BusRead(Begin, REG_PRESSURE, 3, fail)
           m2 == IF IsZero(sea_level_pressure) THEN Raise(m1, "ZeroDivisionError") ELSE m1
       IN  /\ Finish("altitude.get", "none", m2,
                     AltitudeOf(PressureOf(RawRead(m1, REG_PRESSURE)), sea_level_pressure),
                     sea_level_pressure)
           /\ UNCHANGED inst

AltitudeSet(value, fail) ==
    /\ inst = "ready"
    /\ LET m1 == BusRead(Begin, REG_PRESSURE, 3, fail)
           m2 == IF value = 44330 THEN Raise(m1, "ZeroDivisionError") ELSE m1
       IN  /\ Finish("altitude.set", value, m2, "none",
                     SeaLevelOf(PressureOf(RawRead(m1, REG_PRESSURE)), value))
           /\ UNCHANGED inst

\* the chip finishes a conversion and stores the results, least significant
\* byte first, in the temperature and pressure registers
Measure(t, p) ==
    /\ regs' = [r \in DOMAIN regs |->
                  IF r \in REG_TEMPERATURE .. REG_TEMPERATURE + 2
                  THEN (t \div 256 ^ (r - REG_TEMPERATURE)) % 256
                  ELSE IF r \in REG_PRESSURE .. REG_PRESSURE + 2
                  THEN (p \div 256 ^ (r - REG_PRESSURE)) % 256
                  ELSE regs[r]]
    /\ last' = [op |-> "measure", arg |-> <<t, p>>, err |-> "none", result |-> "none",
                assigned |-> <<>>]
    /\ log' = <<>>
    /\ UNCHANGED <<inst, sea_level_pressure, tc>>

---------------------------------------------------------------------------
(* Inputs *)

\* register contents the chip may hold when the driver is constructed:
\* <<register 0x36, register 0x37>>
ConfSamples == {<<0, 0>>, <<255, 255>>, <<165, 90>>, <<90, 165>>}
IdSamples == {CHIP_ID, CHIP_ID + 1, 0, 255}

PowerModeArgs == (0 - ArgSpan) .. (3 + ArgSpan)
OversampleArgs == ((0 - ArgSpan) .. 0) \cup {2, 5} \cup (7 .. (7 + ArgSpan))
OutputDataRateArgs == ((0 - ArgSpan) .. 0) \cup {10, 21} \cup (31 .. (31 + ArgSpan))

\* raw 24-bit conversion results the chip may produce
RawSamples == {0, 1, 400000, 2 ^ 23 - 1, 2 ^ 23, 255 * 2 ^ 16, 2 ^ 24 - 1}
\* altitudes given to the altitude setter, in whole metres
AltitudeArgs == {0, 100, 44330}

RegAddrs == {REG_WHOAMI, OSR_CONF, ODR_CONFIG}
              \cup (REG_TEMPERATURE .. REG_TEMPERATURE + 2)
              \cup (REG_PRESSURE .. REG_PRESSURE + 2)

NoCall == [op |-> "none", arg |-> "none", err |-> "none", result |-> "none",
           assigned |-> <<>>]

Init ==
    /\ \E id \in IdSamples, c \in ConfSamples :
          regs = [r \in RegAddrs |->
                    CASE r = REG_WHOAMI -> id
                      [] r = OSR_CONF -> c[1]
                      [] r = ODR_CONFIG -> c[2]
                      [] OTHER -> 0]
    /\ inst = "none"
    /\ sea_level_pressure = Unset
    /\ last = NoCall
    /\ log = <<>>
    /\ tc = [stage |-> "idle"]

NextCfg ==
    \/ \E f \in FailPoints(5) : Construct(f)
    \/ \E f \in FailPoints(1) : PowerModeGet(f)
    \/ \E v \in PowerModeArgs, f \in FailPoints(2) : PowerModeSet(v, f)
    \/ \E f \in FailPoints(1) : PressureOversampleRateGet(f)
    \/ \E v \in OversampleArgs, f \in FailPoints(2) : PressureOversampleRateSet(v, f)
    \/ \E f \in FailPoints(1) : TemperatureOversampleRateGet(f)
    \/ \E v \in OversampleArgs, f \in FailPoints(2) : TemperatureOversampleRateSet(v, f)
    \/ \E f \in FailPoints(1) : OutputDataRateGet(f)
    \/ \E v \in OutputDataRateArgs, f \in FailPoints(2) : OutputDataRateSet(v, f)

SpecCfg == Init /\ [][NextCfg]_vars

NextMeas ==
    \/ \E f \in FailPoints(5) : Construct(f)
    \/ \E t \in RawSamples, p \in RawSamples : Measure(t, p)
    \/ \E f \in FailPoints(1) : Temperature(f)
    \/ \E f \in FailPoints(1) : Pressure(f)
    \/ \E f \in FailPoints(1) : AltitudeGet(f)
    \/ \E v \in AltitudeArgs, f \in FailPoints(1) : AltitudeSet(v, f)

SpecMeas == Init /\ [][NextMeas]_vars

---------------------------------------------------------------------------
(* _twos_comp on its own: an input is drawn, encoded if it is signed, and  *)
(* decoded at width 24.                                                    *)

RawInputs ==
    (0 .. RawSpan) \cup ((2 ^ 23 - RawSpan) .. (2 ^ 23 + RawSpan))
      \cup ((2 ^ 24 - 1 - RawSpan) .. (2 ^ 24 - 1)) \cup RawSamples
      \cup {k * 65793 : k \in 0 .. 255}
SignedInputs ==
    ((0 - 2 ^ 23) .. (RawSpan - 2 ^ 23)) \cup ((0 - RawSpan) .. RawSpan)
      \cup ((2 ^ 23 - 1 - RawSpan) .. (2 ^ 23 - 1)) \cup {400000, 0 - 65536}
      \cup {(k - 128) * 65536 + k : k \in 0 .. 255}

\* 24-bit two's-complement encoding of a signed value
Encode24(v) == v % 2 ^ 24

InitTwos ==
    /\ regs = [r \in RegAddrs |-> IF r = REG_WHOAMI THEN CHIP_ID ELSE 0]
    /\ inst = "none"
    /\ sea_level_pressure = Unset
    /\ last = NoCall
    /\ log = <<>>
    /\ \/ \E r \in RawInputs : tc = [stage |-> "raw", from |-> "raw", signed |-> 0, raw |-> r, out |-> 0]
       \/ \E v \in SignedInputs : tc = [stage |-> "signed", from |-> "signed", signed |-> v, raw |-> 0, out |-> 0]

TcEncode ==
    /\ tc.stage = "signed"
    /\ tc' = [tc EXCEPT !.stage = "raw", !.raw = Encode24(tc.signed)]
    /\ UNCHANGED <<regs, inst, sea_level_pressure, last, log>>

TcDecode ==
    /\ tc.stage = "raw"
    /\ tc' = [tc EXCEPT !.stage = "decoded", !.out = TwosComp(tc.raw, 24)]
    /\ UNCHANGED <<regs, inst, sea_level_pressure, last, log>>

NextTwos == TcEncode \/ TcDecode

SpecTwos == InitTwos /\ [][NextTwos]_vars

---------------------------------------------------------------------------
(* The whole driver: every call, on a few inputs of each kind *)

CorePowerModeArgs == {STANDBY, NON_STOP, 4}
CoreOversampleArgs == {OSR32}
CoreOutputDataRateArgs == {21, 32}
CoreRawSamples == {1, 400000}
CoreAltitudeArgs == {100}

Next ==
    \/ \E f \in FailPoints(5) : Construct(f)
    \/ \E f \in FailPoints(1) : PowerModeGet(f)
    \/ \E v \in CorePowerModeArgs, f \in FailPoints(2) : PowerModeSet(v, f)
    \/ \E f \in FailPoints(1) : PressureOversampleRateGet(f)
    \/ \E v \in CoreOversampleArgs, f \in FailPoints(2) : PressureOversampleRateSet(v, f)
    \/ \E f \in FailPoints(1) : TemperatureOversampleRateGet(f)
    \/ \E v \in CoreOversampleArgs, f \in FailPoints(2) : TemperatureOversampleRateSet(v, f)
    \/ \E f \in FailPoints(1) : OutputDataRateGet(f)
    \/ \E v \in CoreOutputDataRateArgs, f \in FailPoints(2) : OutputDataRateSet(v, f)
    \/ \E p \in CoreRawSamples : Measure(2 ^ 24 - p, p)
    \/ \E f \in FailPoints(1) : Temperature(f)
    \/ \E f \in FailPoints(1) : Pressure(f)
    \/ \E f \in FailPoints(1) : AltitudeGet(f)
    \/ \E v \in CoreAltitudeArgs, f \in FailPoints(1) : AltitudeSet(v, f)

Spec == Init /\ [][Next]_vars

---------------------------------------------------------------------------
(* Properties *)

SetOps == {"power_mode.set", "pressure_oversample_rate.set",
           "temperature_oversample_rate.set", "output_data_rate.set"}

\* the range each setter declares for its argument
DeclaredRange(op) ==
    CASE op = "power_mode.set" -> 0 .. 3
      [] op = "pressure_oversample_rate.set" -> 0 .. 7
      [] op = "temperature_oversample_rate.set" -> 0 .. 7
      [] op = "output_data_rate.set" -> 0 .. 31

\* every register but those in keep is as it was before the step
SameExcept(keep) == \A r \in DOMAIN regs : r \notin keep => regs'[r] = regs[r]

\* the 24-bit value stored least significant byte first at addr, sign-decoded
SignedAt(rs, addr) ==
    LET raw == rs[addr] + 256 * rs[addr + 1] + 65536 * rs[addr + 2]
    IN  IF raw >= 8388608 THEN raw - 16777216 ELSE raw

(* C1: a construction whose device-ID read returns a byte other than 0x50  *)
(* fails with the device-not-found error (RuntimeError), the ID read is    *)
(* the only bus transaction of the call, and every register, the absence   *)
(* of a driver object and sea_level_pressure are as before.                *)
C1_Step ==
    (/\ last'.op = "__init__"
     /\ log' # <<>>
     /\ log'[1].ok
     /\ regs[1] # 80)
    => /\ last'.err = "RuntimeError"
       /\ log' = <<[kind |-> "read", reg |-> 1, ok |-> TRUE]>>
       /\ regs' = regs
       /\ inst' = "none"
       /\ sea_level_pressure' = sea_level_pressure
C1_DeviceNotFound == [][C1_Step]_vars

\* a failed identity check on a chip whose configuration registers are not 0
C1_Witness ==
    /\ last.op = "__init__"
    /\ last.err = "RuntimeError"
    /\ regs[1] = 81
    /\ regs[54] = 165
    /\ regs[55] = 90

(* C2: after every successful construction the power-mode field (bits 0-1  *)
(* of register 0x37) reads NORMAL (1), the pressure-enable bit (bit 6 of   *)
(* register 0x36) is 1 and sea_level_pressure is 101.325.                  *)
C2_InitialState ==
    (last.op = "__init__" /\ last.err = "none")
    => /\ regs[55] % 4 = 1
       /\ (regs[54] \div 64) % 2 = 1
       /\ sea_level_pressure.fn = "quot"
       /\ sea_level_pressure.num * 1000 = 101325 * sea_level_pressure.den
       /\ inst = "ready"

\* a successful construction on a chip that held power mode FORCED and a
\* clear pressure-enable bit (register 0x36 = 0xA5, register 0x37 = 0x5A)
C2_Witness ==
    /\ last.op = "__init__"
    /\ last.err = "none"
    /\ regs[54] = 229
    /\ regs[55] = 89

(* C3: a setter called with an integer outside its field's declared range  *)
(* fails with the invalid-configuration error (ValueError) before any bus  *)
(* transaction is issued and leaves every register as it was.              *)
C3_Step ==
    (last'.op \in SetOps /\ last'.arg \notin DeclaredRange(last'.op))
    => /\ last'.err = "ValueError"
       /\ log' = <<>>
       /\ regs' = regs
       /\ sea_level_pressure' = sea_level_pressure
C3_InvalidRejected == [][C3_Step]_vars

\* output data rate 32 rejected
C3_Witness ==
    /\ last.op = "output_data_rate.set"
    /\ last.arg = 32
    /\ last.err = "ValueError"
    /\ log = <<>>

(* C4: for every in-range value a set succeeds (when the bus raises        *)
(* nothing), and the get of the same field that follows it returns the     *)
(* matching value: the v-th name for power mode and the oversample rates,  *)
(* the integer v for the output data rate.                                 *)
C4_Step ==
    /\ (/\ last'.op \in SetOps
        /\ last'.arg \in DeclaredRange(last'.op)
        /\ \A i \in DOMAIN log' : log'[i].ok)
       => last'.err = "none"
    /\ (last.err = "none" /\ last'.err = "none")
       => /\ (last.op = "power_mode.set" /\ last'.op = "power_mode.get")
             => last'.result = <<"STANDBY", "NORMAL", "FORCED", "NON_STOP">>[last.arg + 1]
          /\ (/\ last.op = "pressure_oversample_rate.set"
              /\ last'.op = "pressure_oversample_rate.get")
             => last'.result =
                  <<"OSR1", "OSR2", "OSR4", "OSR8", "OSR16", "OSR32", "OSR64", "OSR128">>
                     [last.arg + 1]
          /\ (/\ last.op = "temperature_oversample_rate.set"
              /\ last'.op = "temperature_oversample_rate.get")
             => last'.result =
                  <<"OSR1", "OSR2", "OSR4", "OSR8", "OSR16", "OSR32", "OSR64", "OSR128">>
                     [last.arg + 1]
          /\ (last.op = "output_data_rate.set" /\ last'.op = "output_data_rate.get")
             => last'.result = last.arg
C4_SetThenGet == [][C4_Step]_vars

\* power mode read back as NON_STOP: construction left it NORMAL, so only a
\* set of 3 can have produced it
C4_Witness ==
    /\ last.op = "power_mode.get"
    /\ last.err = "none"
    /\ last.result = "NON_STOP"

(* C5 as stated: whenever the bus raises a transport error inside a call,  *)
(* the registers and sea_level_pressure are exactly as before the call.    *)
C5_Original_Step ==
    last'.err = "OSError"
    => /\ regs' = regs
       /\ sea_level_pressure' = sea_level_pressure
C5_Original == [][C5_Original_Step]_vars

(* C5 amended: a transport error at a transaction of a call reaches the    *)
(* caller, nothing after the failing transaction is executed, and          *)
(* sea_level_pressure and the driver object are as before.  The registers  *)
(* are as before as well, except when construction fails inside its second *)
(* read-modify-write (transaction 4 or 5): then register 0x37 already has  *)
(* power mode NORMAL in bits 0-1, its other bits and all other registers   *)
(* unchanged.                                                              *)
C5_Step ==
    /\ \A i \in DOMAIN log' : ~log'[i].ok => (last'.err = "OSError" /\ i = Len(log'))
    /\ last'.err = "OSError"
       => /\ ~log'[Len(log')].ok
          /\ sea_level_pressure' = sea_level_pressure
          /\ inst' = inst
          /\ IF last'.op = "__init__" /\ Len(log') >= 4
             THEN /\ regs'[55] = (regs[55] - (regs[55] % 4)) + 1
                  /\ SameExcept({55})
             ELSE regs' = regs
C5_TransportError == [][C5_Step]_vars

\* construction that failed at its last transaction on a chip that held 0xFF
\* in register 0x37: the power mode is already rewritten
C5_Witness ==
    /\ last.op = "__init__"
    /\ last.err = "OSError"
    /\ Len(log) = 5
    /\ regs[55] = 253
    /\ inst = "none"
    /\ sea_level_pressure = Unset

(* C6: decoding at width 24 maps every raw value of [0, 2^24) into         *)
(* [-2^23, 2^23 - 1], raw itself when bit 23 is clear and raw - 2^24 when  *)
(* it is set; and decoding the 24-bit two's-complement encoding of a       *)
(* signed value of that range gives the value back.                        *)
C6_TwosComplement ==
    tc.stage = "decoded"
    => /\ tc.out \in (0 - 8388608) .. 8388607
       /\ tc.out = IF tc.raw < 8388608 THEN tc.raw ELSE tc.raw - 16777216
       /\ tc.from = "signed" => tc.out = tc.signed

\* the most negative value, encoded and decoded
C6_Witness ==
    /\ tc.stage = "decoded"
    /\ tc.from = "signed"
    /\ tc.signed = 0 - 8388608
    /\ tc.raw = 8388608

(* C7: temperature is the sign-decoded 24-bit content of register 0x1D     *)
(* divided by 2^16, pressure that of register 0x20 divided by 2^6 and by   *)
(* 1000: raw 0x000000 gives temperature 0, raw 0xFF0000 temperature -1,    *)
(* raw 0x061A80 pressure 6.25.                                             *)
C7_Conversion ==
    /\ (last.op = "temperature.get" /\ last.err = "none")
       => /\ last.result.den = 65536
          /\ last.result.num = SignedAt(regs, 29)
          /\ (regs[29] = 0 /\ regs[30] = 0 /\ regs[31] = 0) => last.result.num = 0
          /\ (regs[29] = 0 /\ regs[30] = 0 /\ regs[31] = 255)
             => last.result.num = 0 - last.result.den
    /\ (last.op = "pressure.get" /\ last.err = "none")
       => /\ last.result.den = 64000
          /\ last.result.num = SignedAt(regs, 32)
          /\ (regs[32] = 128 /\ regs[33] = 26 /\ regs[34] = 6)
             => last.result.num * 100 = 625 * last.result.den

\* pressure read while the register holds 0x061A80
C7_Witness ==
    /\ last.op = "pressure.get"
    /\ last.err = "none"
    /\ regs[32] = 128 /\ regs[33] = 26 /\ regs[34] = 6
    /\ last.result.num = 400000

(* C8: a successful set of one field changes only that field's bits: the   *)
(* other bits of its register and every other register are unchanged.      *)
(* Register 0x37: power mode bits 0-1, output data rate bits 2-6; register *)
(* 0x36: temperature oversample bits 0-2, pressure oversample bits 3-5,    *)
(* pressure-enable bit 6.  Construction's two writes obey the same rule.   *)
C8_Step ==
    last'.err = "none"
    => /\ last'.op = "power_mode.set"
          => /\ regs'[55] \div 4 = regs[55] \div 4
             /\ regs'[55] % 4 = last'.arg
             /\ SameExcept({55})
       /\ last'.op = "output_data_rate.set"
          => /\ regs'[55] % 4 = regs[55] % 4
             /\ regs'[55] \div 128 = regs[55] \div 128
             /\ (regs'[55] \div 4) % 32 = last'.arg
             /\ SameExcept({55})
       /\ last'.op = "temperature_oversample_rate.set"
          => /\ regs'[54] \div 8 = regs[54] \div 8
             /\ regs'[54] % 8 = last'.arg
             /\ SameExcept({54})
       /\ last'.op = "pressure_oversample_rate.set"
          => /\ regs'[54] % 8 = regs[54] % 8
             /\ regs'[54] \div 64 = regs[54] \div 64
             /\ (regs'[54] \div 8) % 8 = last'.arg
             /\ SameExcept({54})
       /\ last'.op = "__init__"
          => /\ regs'[55] \div 4 = regs[55] \div 4
             /\ regs'[54] % 64 = regs[54] % 64
             /\ regs'[54] \div 128 = regs[54] \div 128
             /\ SameExcept({54, 55})
C8_FieldsIndependent == [][C8_Step]_vars

\* pressure oversample set to 2 in a register whose temperature field holds 5
\* and whose bits 6 and 7 are set
C8_Witness ==
    /\ last.op = "pressure_oversample_rate.set"
    /\ last.err = "none"
    /\ last.arg = 2
    /\ regs[54] = 128 + 64 + 2 * 8 + 5

(* C9: every value the driver assigns to a configuration field is in the   *)
(* field's declared range, and no getter fails with an index outside its   *)
(* name table: a named getter that returns, returns a name of its table.   *)
C9_ValuesInRange ==
    /\ \A i \in DOMAIN last.assigned :
          LET f == last.assigned[i][1]
              v == last.assigned[i][2]
          IN  CASE f = "power_mode" -> v \in 0 .. 3
                [] f = "pressure_oversample_rate" -> v \in 0 .. 7
                [] f = "temperature_oversample_rate" -> v \in 0 .. 7
                [] f = "output_data_rate" -> v \in 0 .. 31
                [] f = "pressure_enabled" -> v \in 0 .. 1
                [] OTHER -> FALSE
    /\ last.err # "IndexError"
    /\ (last.op = "power_mode.get" /\ last.err = "none")
       => last.result \in {"STANDBY", "NORMAL", "FORCED", "NON_STOP"}
    /\ (/\ last.op \in {"pressure_oversample_rate.get", "temperature_oversample_rate.get"}
        /\ last.err = "none")
       => last.result \in {"OSR1", "OSR2", "OSR4", "OSR8", "OSR16", "OSR32", "OSR64", "OSR128"}

\* the largest output data rate assigned
C9_Witness ==
    /\ last.op = "output_data_rate.set"
    /\ last.err = "none"
    /\ last.assigned = << <<"output_data_rate", 31>> >>

(* C10: temperature, pressure, altitude (get) and altitude (set) each      *)
(* issue one bus read of the raw register and no write, and work on the    *)
(* register content at the call: the getters return the value of the       *)
(* current content (altitude with the current sea_level_pressure) and      *)
(* leave sea_level_pressure unchanged; the altitude setter changes only    *)
(* sea_level_pressure, to the value of the current pressure content and    *)
(* its argument.                                                           *)
C10_Step ==
    /\ last'.op \in {"temperature.get", "pressure.get", "altitude.get", "altitude.set"}
       => /\ Len(log') = 1
          /\ log'[1].kind = "read"
          /\ log'[1].reg = (IF last'.op = "temperature.get" THEN 29 ELSE 32)
          /\ regs' = regs
          /\ inst' = inst
    /\ last'.op \in {"temperature.get", "pressure.get", "altitude.get"}
       => sea_level_pressure' = sea_level_pressure
    /\ (last'.op = "temperature.get" /\ last'.err = "none")
       => last'.result.num = SignedAt(regs, 29)
    /\ (last'.op = "pressure.get" /\ last'.err = "none")
       => last'.result.num = SignedAt(regs, 32)
    /\ (last'.op = "altitude.get" /\ last'.err = "none")
       => /\ last'.result.pressure.num = SignedAt(regs, 32)
          /\ last'.result.pressure.den = 64000
          /\ last'.result.sea_level_pressure = sea_level_pressure
    /\ (last'.op = "altitude.set" /\ last'.err = "none")
       => /\ sea_level_pressure'.pressure.num = SignedAt(regs, 32)
          /\ sea_level_pressure'.pressure.den = 64000
          /\ sea_level_pressure'.altitude = last'.arg
    /\ (last'.op = "altitude.set" /\ last'.err # "none")
       => sea_level_pressure' = sea_level_pressure
C10_NoCaching == [][C10_Step]_vars

\* an altitude read that sees pressure 0x061A80 after a calibration that saw
\* pressure 1: the register changed between the two accesses
C10_Witness ==
    /\ last.op = "altitude.get"
    /\ last.err = "none"
    /\ last.result.pressure.num = 400000
    /\ last.result.sea_level_pressure.fn = "sea_level"
    /\ last.result.sea_level_pressure.pressure.num = 1

===========================================================================
